---- MODULE Spec2Model ----
(***************************************************************************)
(* Model of newClient and decodePrivateKey of cmd/kes: how the kes CLI     *)
(* resolves its TLS client identity from the environment, either from an   *)
(* API key or from a certificate file and a (possibly encrypted) private   *)
(* key file.                                                               *)
(*                                                                         *)
(* One run of newClient is one behaviour.  Every statement of newClient    *)
(* that calls a collaborator or can end the run is one action; pc is the   *)
(* position in newClient.  Strings are sequences of tokens, so that        *)
(* strings.TrimSpace and strings.HasSuffix are computed, not assumed.      *)
(***************************************************************************)
EXTENDS Naturals, Sequences, FiniteSets

VARIABLES
    env,                \* the process environment: name -> [ok, val] as os.LookupEnv reports it
    stderrIsTerm,       \* whether os.Stderr is a terminal (what isTerm(os.Stderr) would report)
    insecureSkipVerify, \* the argument of newClient
    pc,                 \* position in newClient
    apiKey,             \* local apiKey (line 226)
    certPath,           \* local certPath (line 252)
    keyPath,            \* local keyPath (line 260)
    certPem,            \* local certPem (lines 268, 272)
    keyPem,             \* local keyPem (lines 276, 302)
    pemBlock,           \* parameter pemBlock of decodePrivateKey, reassigned at line 341
    passes,             \* the passes the loop of decodePrivateKey has made (line 333)
    privateKey,         \* local privateKey (line 283)
    password,           \* local password (line 289)
    err,                \* the error value returned by the last collaborator call
    cert,               \* local cert: the tls.Certificate (lines 237, 305)
    client,             \* the *kes.Client returned (lines 246, 314)
    stderr,             \* everything written to os.Stderr, in order
    fatal,              \* the message cli.Fatalf ended the run with, <<>> if none
    calls               \* the collaborator calls made so far, in order

vars == <<env, stderrIsTerm, insecureSkipVerify, pc, apiKey, certPath, keyPath,
          certPem, keyPem, pemBlock, passes, privateKey, password, err, cert,
          client, stderr, fatal, calls>>

(***************************************************************************)
(* Bounds                                                                  *)
(***************************************************************************)
\* The largest number of items (PEM blocks or stretches of non-PEM data) in a file.
MaxBlocks == 2

(***************************************************************************)
(* Program constants                                                       *)
(***************************************************************************)
DefaultServer == <<"https://127.0.0.1:7373">>
EnvServer     == "KES_SERVER"
EnvAPIKey     == "KES_API_KEY"
EnvClientKey  == "KES_CLIENT_KEY"
EnvClientCert == "KES_CLIENT_CERT"
EnvNames      == {EnvServer, EnvAPIKey, EnvClientKey, EnvClientCert}

\* The no-error value of Go's error type.
NoErr == "nil"

\* The error decodePrivateKey returns.
ErrNoPrivateKey == "no PEM-encoded private key found"

\* x509.IncorrectPasswordError
IncorrectPasswordError == "x509: decryption password incorrect"

\* The formats of the cli.Fatalf calls of newClient.
FmtConflictCert == "two conflicting environment variables set: unset either 'KES_API_KEY' or 'KES_CLIENT_CERT'"
FmtConflictKey  == "two conflicting environment variables set: unset either 'KES_API_KEY' or 'KES_CLIENT_KEY'"
FmtInvalidKey   == "invalid API key: %v"
FmtGenerate     == "failed to generate client certificate from API key: %v"
FmtCertNotSet   == "no TLS client certificate. Environment variable 'KES_CLIENT_CERT' is not set"
FmtCertEmpty    == "no TLS client certificate. Environment variable 'KES_CLIENT_CERT' is empty"
FmtKeyNotSet    == "no TLS private key. Environment variable 'KES_CLIENT_KEY' is not set"
FmtKeyEmpty     == "no TLS private key. Environment variable 'KES_CLIENT_KEY' is empty"
FmtLoadCert     == "failed to load TLS certificate: %v"
FmtLoadKey      == "failed to load TLS private key: %v"
FmtReadKey      == "failed to read TLS private key: %v"
FmtReadPassword == "failed to read private key password: %v"
FmtIncorrect    == "incorrect password"
FmtDecrypt      == "failed to decrypt private key: %v"
FmtKeyPair      == "failed to load TLS private key or certificate: %v"

\* What newClient writes to os.Stderr around the password read.
Prompt  == <<"Enter password for private key: ">>
Newline == <<"\n">>

(***************************************************************************)
(* Strings                                                                 *)
(***************************************************************************)
IsSpace(c) == c = " "

RECURSIVE TrimLeft(_)
TrimLeft(s) ==
    IF s # <<>> /\ IsSpace(Head(s)) THEN TrimLeft(Tail(s)) ELSE s

RECURSIVE TrimRight(_)
TrimRight(s) ==
    IF s # <<>> /\ IsSpace(s[Len(s)]) THEN TrimRight(SubSeq(s, 1, Len(s) - 1)) ELSE s

\* strings.TrimSpace
TrimSpace(s) == TrimRight(TrimLeft(s))

\* strings.HasSuffix
HasSuffix(s, suffix) ==
    /\ Len(s) >= Len(suffix)
    /\ SubSeq(s, Len(s) - Len(suffix) + 1, Len(s)) = suffix

(***************************************************************************)
(* PEM data: a file is a sequence of items, each a PEM block or a stretch  *)
(* of data that is no PEM block.                                           *)
(***************************************************************************)
TypeCertificate   == <<"CERTIFICATE">>
TypePrivateKey    == <<"PRIVATE", " ", "KEY">>
TypeRSAPrivateKey == <<"RSA", " ", "PRIVATE", " ", "KEY">>
\* "RSAPRIVATE KEY": ends with "PRIVATE KEY" but not with " PRIVATE KEY".
TypeNearMiss      == <<"RSA", "PRIVATE", " ", "KEY">>

Block(type, headers, dek, bytes) ==
    [kind |-> "block", type |-> type, headers |-> headers, dek |-> dek, bytes |-> bytes]

Junk    == [kind |-> "junk", type |-> <<>>, headers |-> {}, dek |-> "none", bytes |-> "text"]
\* The nil *pem.Block.
NoBlock == [kind |-> "nil", type |-> <<>>, headers |-> {}, dek |-> "none", bytes |-> "none"]

Items ==
    { Junk,
      Block(TypeCertificate, {}, "none", "der"),
      Block(TypeNearMiss, {"Proc-Type", "DEK-Info"}, "ok", "ciphertext"),
      Block(TypePrivateKey, {}, "none", "der"),
      Block(TypeRSAPrivateKey, {}, "none", "der"),
      Block(TypeRSAPrivateKey, {"Comment"}, "none", "der"),
      Block(TypeRSAPrivateKey, {"Proc-Type", "DEK-Info"}, "ok", "ciphertext"),
      Block(TypeRSAPrivateKey, {"Proc-Type", "DEK-Info"}, "malformed", "ciphertext") }

SeqsUpTo(S, n) == UNION { [1..k -> S] : k \in 0..n }

\* What a file can hold.
FileContents == SeqsUpTo(Items, MaxBlocks)

(***************************************************************************)
(* Collaborators, by their documented behaviour                            *)
(***************************************************************************)
\* encoding/pem Decode: the index of the first PEM block of data, 0 if it holds none.
PemDecodeIndex(data) ==
    IF \E i \in 1..Len(data) : data[i].kind = "block"
    THEN CHOOSE i \in 1..Len(data) :
            /\ data[i].kind = "block"
            /\ \A j \in 1..(i - 1) : data[j].kind # "block"
    ELSE 0

\* encoding/pem Decode: the block found (nil if none) and the rest of the input after it.
PemDecodeNext(data) ==
    IF PemDecodeIndex(data) = 0 THEN NoBlock ELSE data[PemDecodeIndex(data)]

PemDecodeRest(data) ==
    IF PemDecodeIndex(data) = 0 THEN data
    ELSE SubSeq(data, PemDecodeIndex(data) + 1, Len(data))

\* The filter newClient hands to https.FilterPEM.
IsCertificateBlock(b) == b.type = TypeCertificate

\* https.FilterPEM: the blocks that pass the filter; an error if none is left.
FilterPEM(data) == SelectSeq(data, LAMBDA b : b.kind = "block" /\ IsCertificateBlock(b))

FilterPEMErr(data) ==
    IF FilterPEM(data) = <<>> THEN "https: no PEM data found" ELSE NoErr

\* kes.ParseAPIKey: an API key is the prefix "kes:v1:" and a payload.
ParseAPIKeyErr(s) ==
    IF Len(s) = 2 /\ s[1] = "kes:v1:" THEN NoErr ELSE "kes: invalid API key"

\* x509.IsEncryptedPEMBlock
IsEncryptedPEMBlock(b) == "DEK-Info" \in b.headers

\* The password the encrypted blocks of Items are encrypted with.
KeyPassword == "secret"
Passwords   == {KeyPassword, "guess"}

\* x509.DecryptPEMBlock: the possible results [err, bytes].  A wrong password is
\* reported as IncorrectPasswordError when the padding shows it, and otherwise
\* yields noise without an error.
DecryptPEMBlock(b, pw) ==
    IF ~IsEncryptedPEMBlock(b)
    THEN { [err |-> "x509: no DEK-Info header in block", bytes |-> "none"] }
    ELSE IF b.dek # "ok"
    THEN { [err |-> "x509: malformed DEK-Info header", bytes |-> "none"] }
    ELSE IF pw = KeyPassword
    THEN { [err |-> NoErr, bytes |-> "der"] }
    ELSE { [err |-> IncorrectPasswordError, bytes |-> "none"],
           [err |-> NoErr, bytes |-> "noise"] }

\* term.ReadPassword: the possible results [err, password].  On a descriptor that
\* is no terminal the terminal-state ioctl fails and nothing is read.
ReadPasswordResults ==
    IF stderrIsTerm
    THEN { [err |-> NoErr, password |-> p] : p \in Passwords }
            \cup { [err |-> "EOF", password |-> ""] }
    ELSE { [err |-> "inappropriate ioctl for device", password |-> ""] }

\* tls.X509KeyPair: the possible errors.  Noise is never a key; otherwise the key
\* may or may not parse and match the certificate.
X509KeyPairErrs(cpem, kpem) ==
    IF \E i \in 1..Len(kpem) : kpem[i].bytes = "noise"
    THEN { "tls: failed to parse private key" }
    ELSE { NoErr, "tls: private key does not match public key" }

\* pem.EncodeToMemory(&pem.Block{Type: t, Bytes: bytes})
EncodeToMemory(t, bytes) == << Block(t, {}, "none", bytes) >>

(***************************************************************************)
(* The initial state: newClient is entered in some environment.            *)
(***************************************************************************)
Unset      == [ok |-> FALSE, val |-> <<>>]
Set(v)     == [ok |-> TRUE, val |-> v]

APIKeyValues == { <<>>, <<"kes:v1:">>, <<"kes:v1:", "AAAA">> }
PathValues   == { <<>>, <<" ">>, <<"f">>, <<" ", "f", " ">> }
ServerValues == { <<>>, DefaultServer, <<"https://kes.example.net:7373">> }

NoClient == [built |-> FALSE, addr |-> <<>>, cert |-> "none", insecureSkipVerify |-> FALSE]

Init ==
    /\ \E a \in {Unset} \cup { Set(v) : v \in APIKeyValues },
          c \in {Unset} \cup { Set(v) : v \in PathValues },
          k \in {Unset} \cup { Set(v) : v \in PathValues },
          s \in {Unset} \cup { Set(v) : v \in ServerValues } :
            env = [n \in EnvNames |->
                      IF n = EnvAPIKey THEN a
                      ELSE IF n = EnvClientCert THEN c
                      ELSE IF n = EnvClientKey THEN k
                      ELSE s]
    /\ stderrIsTerm \in BOOLEAN
    /\ insecureSkipVerify \in BOOLEAN
    /\ pc = "LookupAPIKey"
    /\ apiKey = <<>>
    /\ certPath = <<>>
    /\ keyPath = <<>>
    /\ certPem = <<>>
    /\ keyPem = <<>>
    /\ pemBlock = <<>>
    /\ passes = 0
    /\ privateKey = NoBlock
    /\ password = ""
    /\ err = NoErr
    /\ cert = "none"
    /\ client = NoClient
    /\ stderr = <<>>
    /\ fatal = <<>>
    /\ calls = <<>>

(***************************************************************************)
(* Helpers of the actions                                                  *)
(***************************************************************************)
\* cli.Fatalf: writes the message to os.Stderr and exits the process.
Fatalf(format, e) ==
    /\ pc' = "exit"
    /\ fatal' = <<format, e>>
    /\ stderr' = Append(stderr, <<format, e>>)

Goto(label) ==
    /\ pc' = label
    /\ UNCHANGED <<fatal, stderr>>

Call(name) == calls' = Append(calls, name)

inputs == <<env, stderrIsTerm, insecureSkipVerify>>

\* The state of decodePrivateKey.
scan == <<pemBlock, passes>>

\* The server address newClient connects to (lines 242-245 and 310-313).
ServerAddr_EmptyIsDefault ==
    IF env[EnvServer].ok /\ env[EnvServer].val # <<>> THEN env[EnvServer].val ELSE DefaultServer

ServerAddr ==
    IF env[EnvServer].ok THEN env[EnvServer].val ELSE DefaultServer

\* kes.NewClientWithConfig(addr, &tls.Config{Certificates: {cert}, InsecureSkipVerify: ...})
NewClientWithConfig(addr, c) ==
    [built |-> TRUE, addr |-> addr, cert |-> c, insecureSkipVerify |-> insecureSkipVerify]

(***************************************************************************)
(* newClient, the API-key path (lines 226-250)                             *)
(***************************************************************************)
LookupAPIKey ==
    /\ pc = "LookupAPIKey"
    /\ IF env[EnvAPIKey].ok
       THEN /\ apiKey' = env[EnvAPIKey].val
            /\ Goto("ConflictCert")
       ELSE /\ Goto("LookupClientCert")
            /\ UNCHANGED apiKey
    /\ UNCHANGED <<inputs, certPath, keyPath, certPem, keyPem, scan, privateKey,
                   password, err, cert, client, calls>>

ConflictCert ==
    /\ pc = "ConflictCert"
    /\ IF env[EnvClientCert].ok
       THEN Fatalf(FmtConflictCert, NoErr)
       ELSE Goto("ConflictKey")
    /\ UNCHANGED <<inputs, apiKey, certPath, keyPath, certPem, keyPem, scan, privateKey,
                   password, err, cert, client, calls>>

ConflictKey_NotChecked ==
    /\ pc = "ConflictKey"
    /\ Goto("ParseAPIKey")
    /\ UNCHANGED <<inputs, apiKey, certPath, keyPath, certPem, keyPem, scan, privateKey,
                   password, err, cert, client, calls>>

ConflictKey ==
    /\ pc = "ConflictKey"
    /\ IF env[EnvClientKey].ok
       THEN Fatalf(FmtConflictKey, NoErr)
       ELSE Goto("ParseAPIKey")
    /\ UNCHANGED <<inputs, apiKey, certPath, keyPath, certPem, keyPem, scan, privateKey,
                   password, err, cert, client, calls>>

ParseAPIKey_FallsBack ==
    /\ pc = "ParseAPIKey"
    /\ Call("ParseAPIKey")
    /\ err' = ParseAPIKeyErr(apiKey)
    /\ IF err' # NoErr
       THEN Goto("LookupClientCert")
       ELSE Goto("GenerateCertificate")
    /\ UNCHANGED <<inputs, apiKey, certPath, keyPath, certPem, keyPem, scan, privateKey,
                   password, cert, client>>

ParseAPIKey ==
    /\ pc = "ParseAPIKey"
    /\ Call("ParseAPIKey")
    /\ err' = ParseAPIKeyErr(apiKey)
    /\ IF err' # NoErr
       THEN Fatalf(FmtInvalidKey, err')
       ELSE Goto("GenerateCertificate")
    /\ UNCHANGED <<inputs, apiKey, certPath, keyPath, certPem, keyPem, scan, privateKey,
                   password, cert, client>>

\* kes.GenerateCertificate may fail (it draws a serial number and signs).
GenerateCertificate ==
    /\ pc = "GenerateCertificate"
    /\ Call("GenerateCertificate")
    /\ \E e \in { NoErr, "kes: failed to generate certificate" } :
        /\ err' = e
        /\ IF e # NoErr
           THEN /\ Fatalf(FmtGenerate, e)
                /\ UNCHANGED cert
           ELSE /\ cert' = "generated"
                /\ Goto("NewClientAPIKey")
    /\ UNCHANGED <<inputs, apiKey, certPath, keyPath, certPem, keyPem, scan, privateKey,
                   password, client>>

NewClientAPIKey ==
    /\ pc = "NewClientAPIKey"
    /\ client' = NewClientWithConfig(ServerAddr, cert)
    /\ Goto("done")
    /\ UNCHANGED <<inputs, apiKey, certPath, keyPath, certPem, keyPem, scan, privateKey,
                   password, err, cert, calls>>

(***************************************************************************)
(* newClient, the file path (lines 252-317), and decodePrivateKey          *)
(***************************************************************************)
\* strings.TrimSpace(path) == "" (lines 256 and 264)
IsBlank_NotTrimmed(s) == s = <<>>

IsBlank(s) == TrimSpace(s) = <<>>

LookupClientCert ==
    /\ pc = "LookupClientCert"
    /\ certPath' = env[EnvClientCert].val
    /\ IF ~env[EnvClientCert].ok
       THEN Fatalf(FmtCertNotSet, NoErr)
       ELSE IF IsBlank(certPath')
       THEN Fatalf(FmtCertEmpty, NoErr)
       ELSE Goto("LookupClientKey")
    /\ UNCHANGED <<inputs, apiKey, keyPath, certPem, keyPem, scan, privateKey,
                   password, err, cert, client, calls>>

LookupClientKey_PresenceNotChecked ==
    /\ pc = "LookupClientKey"
    /\ keyPath' = env[EnvClientKey].val
    /\ IF env[EnvClientKey].ok /\ IsBlank(keyPath')
       THEN Fatalf(FmtKeyEmpty, NoErr)
       ELSE Goto("ReadCertFile")
    /\ UNCHANGED <<inputs, apiKey, certPath, certPem, keyPem, scan, privateKey,
                   password, err, cert, client, calls>>

LookupClientKey ==
    /\ pc = "LookupClientKey"
    /\ keyPath' = env[EnvClientKey].val
    /\ IF ~env[EnvClientKey].ok
       THEN Fatalf(FmtKeyNotSet, NoErr)
       ELSE IF IsBlank(keyPath')
       THEN Fatalf(FmtKeyEmpty, NoErr)
       ELSE Goto("ReadCertFile")
    /\ UNCHANGED <<inputs, apiKey, certPath, certPem, keyPem, scan, privateKey,
                   password, err, cert, client, calls>>

\* os.ReadFile: the file is missing or unreadable, or it holds some content.
ReadCertFile ==
    /\ pc = "ReadCertFile"
    /\ Call("ReadFile(certPath)")
    /\ \/ /\ err' = "open: no such file or directory"
          /\ Fatalf(FmtLoadCert, err')
          /\ UNCHANGED certPem
       \/ \E content \in FileContents :
          /\ err' = NoErr
          /\ certPem' = content
          /\ Goto("FilterCertPEM")
    /\ UNCHANGED <<inputs, apiKey, certPath, keyPath, keyPem, scan, privateKey,
                   password, cert, client>>

FilterCertPEM ==
    /\ pc = "FilterCertPEM"
    /\ Call("FilterPEM")
    /\ err' = FilterPEMErr(certPem)
    /\ certPem' = FilterPEM(certPem)
    /\ IF err' # NoErr
       THEN Fatalf(FmtLoadCert, err')
       ELSE Goto("ReadKeyFile")
    /\ UNCHANGED <<inputs, apiKey, certPath, keyPath, keyPem, scan, privateKey,
                   password, cert, client>>

ReadKeyFile ==
    /\ pc = "ReadKeyFile"
    /\ Call("ReadFile(keyPath)")
    /\ \/ /\ err' = "open: no such file or directory"
          /\ Fatalf(FmtLoadKey, err')
          /\ UNCHANGED keyPem
       \/ \E content \in FileContents :
          /\ err' = NoErr
          /\ keyPem' = content
          /\ Goto("CallDecodePrivateKey")
    /\ UNCHANGED <<inputs, apiKey, certPath, keyPath, certPem, scan, privateKey,
                   password, cert, client>>

\* Line 283: decodePrivateKey is entered with pemBlock = keyPem.
CallDecodePrivateKey ==
    /\ pc = "CallDecodePrivateKey"
    /\ Call("decodePrivateKey")
    /\ pemBlock' = keyPem
    /\ passes' = 0
    /\ Goto("decodePrivateKey")
    /\ UNCHANGED <<inputs, apiKey, certPath, keyPath, certPem, keyPem, privateKey,
                   password, err, cert, client>>

\* The test of line 338 on a block's type.
IsPrivateKeyType_SpaceForgotten(t) ==
    t = TypePrivateKey \/ HasSuffix(t, <<"PRIVATE", " ", "KEY">>)

IsPrivateKeyType_ExactOnly(t) == t = TypePrivateKey

IsPrivateKeyType(t) ==
    t = TypePrivateKey \/ HasSuffix(t, <<" ", "PRIVATE", " ", "KEY">>)

\* One pass of the loop of decodePrivateKey (lines 333-343).
decodePrivateKey ==
    /\ pc = "decodePrivateKey"
    /\ passes' = passes + 1
    /\ IF Len(pemBlock) = 0 \/ PemDecodeNext(pemBlock) = NoBlock
       THEN /\ privateKey' = NoBlock
            /\ err' = ErrNoPrivateKey
            /\ Goto("CheckDecodeErr")
            /\ UNCHANGED pemBlock
       ELSE IF IsPrivateKeyType(PemDecodeNext(pemBlock).type)
       THEN /\ privateKey' = PemDecodeNext(pemBlock)
            /\ err' = NoErr
            /\ Goto("CheckDecodeErr")
            /\ UNCHANGED pemBlock
       ELSE /\ pemBlock' = PemDecodeRest(pemBlock)
            /\ Goto("decodePrivateKey")
            /\ UNCHANGED <<privateKey, err>>
    /\ UNCHANGED <<inputs, apiKey, certPath, keyPath, certPem, keyPem,
                   password, cert, client, calls>>

\* Lines 284-286.
CheckDecodeErr ==
    /\ pc = "CheckDecodeErr"
    /\ IF err # NoErr
       THEN Fatalf(FmtReadKey, err)
       ELSE Goto("CheckEncrypted")
    /\ UNCHANGED <<inputs, apiKey, certPath, keyPath, certPem, keyPem, scan, privateKey,
                   password, err, cert, client, calls>>

\* Line 287.
CheckEncrypted ==
    /\ pc = "CheckEncrypted"
    /\ IF Cardinality(privateKey.headers) > 0 /\ IsEncryptedPEMBlock(privateKey)
       THEN Goto("PrintPrompt")
       ELSE Goto("X509KeyPair")
    /\ UNCHANGED <<inputs, apiKey, certPath, keyPath, certPem, keyPem, scan, privateKey,
                   password, err, cert, client, calls>>

\* Line 288.
PrintPrompt ==
    /\ pc = "PrintPrompt"
    /\ stderr' = Append(stderr, Prompt)
    /\ pc' = "ReadPassword"
    /\ UNCHANGED <<inputs, apiKey, certPath, keyPath, certPem, keyPem, scan, privateKey,
                   password, err, cert, client, fatal, calls>>

\* Lines 289-292.
ReadPassword ==
    /\ pc = "ReadPassword"
    /\ Call("ReadPassword")
    /\ \E r \in ReadPasswordResults :
        /\ password' = r.password
        /\ err' = r.err
        /\ IF r.err # NoErr
           THEN Fatalf(FmtReadPassword, r.err)
           ELSE Goto("PrintNewline")
    /\ UNCHANGED <<inputs, apiKey, certPath, keyPath, certPem, keyPem, scan, privateKey,
                   cert, client>>

\* Line 293.
PrintNewline ==
    /\ pc = "PrintNewline"
    /\ stderr' = Append(stderr, Newline)
    /\ pc' = "Decrypt"
    /\ UNCHANGED <<inputs, apiKey, certPath, keyPath, certPem, keyPem, scan, privateKey,
                   password, err, cert, client, fatal, calls>>

Decrypt_ErrorsInterchanged ==
    /\ pc = "Decrypt"
    /\ Call("DecryptPEMBlock")
    /\ \E r \in DecryptPEMBlock(privateKey, password) :
        /\ err' = r.err
        /\ IF r.err # NoErr
           THEN /\ IF r.err = IncorrectPasswordError
                   THEN Fatalf(FmtDecrypt, r.err)
                   ELSE Fatalf(FmtIncorrect, NoErr)
                /\ UNCHANGED keyPem
           ELSE /\ keyPem' = EncodeToMemory(privateKey.type, r.bytes)
                /\ Goto("X509KeyPair")
    /\ UNCHANGED <<inputs, apiKey, certPath, keyPath, certPem, scan, privateKey,
                   password, cert, client>>

\* Lines 295-302.
Decrypt ==
    /\ pc = "Decrypt"
    /\ Call("DecryptPEMBlock")
    /\ \E r \in DecryptPEMBlock(privateKey, password) :
        /\ err' = r.err
        /\ IF r.err # NoErr
           THEN /\ IF r.err = IncorrectPasswordError
                   THEN Fatalf(FmtIncorrect, NoErr)
                   ELSE Fatalf(FmtDecrypt, r.err)
                /\ UNCHANGED keyPem
           ELSE /\ keyPem' = EncodeToMemory(privateKey.type, r.bytes)
                /\ Goto("X509KeyPair")
    /\ UNCHANGED <<inputs, apiKey, certPath, keyPath, certPem, scan, privateKey,
                   password, cert, client>>

\* Lines 305-308.
X509KeyPair ==
    /\ pc = "X509KeyPair"
    /\ Call("X509KeyPair")
    /\ \E e \in X509KeyPairErrs(certPem, keyPem) :
        /\ err' = e
        /\ IF e # NoErr
           THEN /\ Fatalf(FmtKeyPair, e)
                /\ UNCHANGED cert
           ELSE /\ cert' = "keypair"
                /\ Goto("NewClientFiles")
    /\ UNCHANGED <<inputs, apiKey, certPath, keyPath, certPem, keyPem, scan, privateKey,
                   password, client>>

\* Lines 310-317.
NewClientFiles ==
    /\ pc = "NewClientFiles"
    /\ client' = NewClientWithConfig(ServerAddr, cert)
    /\ Goto("done")
    /\ UNCHANGED <<inputs, apiKey, certPath, keyPath, certPem, keyPem, scan, privateKey,
                   password, err, cert, calls>>

(***************************************************************************)
(* The specification                                                       *)
(***************************************************************************)
Next ==
    \/ LookupAPIKey
    \/ ConflictCert
    \/ ConflictKey
    \/ ParseAPIKey
    \/ GenerateCertificate
    \/ NewClientAPIKey
    \/ LookupClientCert
    \/ LookupClientKey
    \/ ReadCertFile
    \/ FilterCertPEM
    \/ ReadKeyFile
    \/ CallDecodePrivateKey
    \/ decodePrivateKey
    \/ CheckDecodeErr
    \/ CheckEncrypted
    \/ PrintPrompt
    \/ ReadPassword
    \/ PrintNewline
    \/ Decrypt
    \/ X509KeyPair
    \/ NewClientFiles

Spec == Init /\ [][Next]_vars

\* newClient has returned a client, or cli.Fatalf has ended the process.
Terminated == pc \in {"done", "exit"}

(***************************************************************************)
(* Vocabulary of the properties                                            *)
(***************************************************************************)
Called(name) == \E i \in 1..Len(calls) : calls[i] = name

Written(line) == \E i \in 1..Len(stderr) : stderr[i] = line

\* A variable's state, read off the environment alone.
Absent(v)   == ~env[v].ok
Empty(v)    == env[v].ok /\ env[v].val = <<>>
AllSpace(v) == env[v].ok /\ \A i \in 1..Len(env[v].val) : env[v].val[i] = " "
Usable(v)   == env[v].ok /\ \E i \in 1..Len(env[v].val) : env[v].val[i] # " "

\* A block type that is "PRIVATE KEY" or ends with " PRIVATE KEY".
KeyType(t) ==
    \/ t = <<"PRIVATE", " ", "KEY">>
    \/ /\ Len(t) >= 4
       /\ t[Len(t) - 3] = " "
       /\ t[Len(t) - 2] = "PRIVATE"
       /\ t[Len(t) - 1] = " "
       /\ t[Len(t)] = "KEY"

KeyBlockAt(data, i) == data[i].kind = "block" /\ KeyType(data[i].type)

NoKeyBlock(data) == \A i \in 1..Len(data) : ~KeyBlockAt(data, i)

CertNotSet == <<FmtCertNotSet, NoErr>>
CertEmpty  == <<FmtCertEmpty, NoErr>>
KeyNotSet  == <<FmtKeyNotSet, NoErr>>
KeyEmpty   == <<FmtKeyEmpty, NoErr>>

(***************************************************************************)
(* C1                                                                      *)
(***************************************************************************)
\* C1: in every environment where KES_API_KEY is set together with KES_CLIENT_CERT
\* or KES_CLIENT_KEY, no collaborator is ever called (no file read, no API-key
\* parsing, no certificate generation), no certificate or client is built, and the
\* run ends in the "conflicting environment variables" error naming the pair.
C1_ConflictFailsBeforeAnyWork ==
    (env[EnvAPIKey].ok /\ (env[EnvClientCert].ok \/ env[EnvClientKey].ok)) =>
        /\ calls = <<>>
        /\ cert = "none"
        /\ ~client.built
        /\ Terminated =>
            /\ pc = "exit"
            /\ fatal = IF env[EnvClientCert].ok
                       THEN <<FmtConflictCert, NoErr>>
                       ELSE <<FmtConflictKey, NoErr>>

\* The API key conflicts with the client key alone, and the run has ended.
C1_Witness ==
    /\ env[EnvAPIKey].ok
    /\ ~env[EnvClientCert].ok
    /\ env[EnvClientKey].ok
    /\ pc = "exit"
    /\ fatal = <<FmtConflictKey, NoErr>>

(***************************************************************************)
(* C2                                                                      *)
(***************************************************************************)
\* The "is not set" and "is empty" messages newClient has for each variable:
\* none for the server address and the API key.
NotSetErrors(v) ==
    IF v = EnvClientCert THEN {CertNotSet}
    ELSE IF v = EnvClientKey THEN {KeyNotSet}
    ELSE {}

EmptyErrors(v) ==
    IF v = EnvClientCert THEN {CertEmpty}
    ELSE IF v = EnvClientKey THEN {KeyEmpty}
    ELSE {}

\* C2 as stated: for each of the four variables, a run in which it is absent ends
\* in that variable's "is not set" error, and a run in which it is present but
\* empty ends in that variable's "is empty" error.
C2_AllFourVariables ==
    Terminated =>
        \A v \in EnvNames :
            /\ Absent(v) => fatal \in NotSetErrors(v)
            /\ Empty(v) => fatal \in EmptyErrors(v)

\* C2, amended: the "is not set" and "is empty" errors exist for the two file
\* variables only, and are reported for the first offending one when KES_API_KEY
\* is absent: KES_CLIENT_CERT absent or blank, else KES_CLIENT_KEY absent or
\* blank (blank: empty or white space only); the four errors are distinct.  An
\* absent or empty KES_SERVER is no error (default, or the empty address), an
\* absent KES_API_KEY selects the file path, and an empty KES_API_KEY without a
\* conflicting variable ends in "invalid API key".
C2_FileVariablesOnly ==
    /\ Cardinality({CertNotSet, CertEmpty, KeyNotSet, KeyEmpty}) = 4
    /\ (Terminated /\ Absent(EnvAPIKey)) =>
        /\ Absent(EnvClientCert) => fatal = CertNotSet
        /\ AllSpace(EnvClientCert) => fatal = CertEmpty
        /\ (Usable(EnvClientCert) /\ Absent(EnvClientKey)) => fatal = KeyNotSet
        /\ (Usable(EnvClientCert) /\ AllSpace(EnvClientKey)) => fatal = KeyEmpty
    /\ (Terminated /\ Empty(EnvAPIKey) /\ Absent(EnvClientCert) /\ Absent(EnvClientKey)) =>
        fatal = <<FmtInvalidKey, "kes: invalid API key">>
    /\ fatal \in {CertNotSet, CertEmpty, KeyNotSet, KeyEmpty} => Absent(EnvAPIKey)
    /\ (client.built /\ Absent(EnvServer)) => client.addr = DefaultServer
    /\ (client.built /\ Empty(EnvServer)) => client.addr = <<>>

\* The certificate path is usable and the key path is white space only.
C2_Witness ==
    /\ Absent(EnvAPIKey)
    /\ Usable(EnvClientCert)
    /\ env[EnvClientKey] = Set(<<" ">>)
    /\ pc = "exit"
    /\ fatal = KeyEmpty

(***************************************************************************)
(* C3                                                                      *)
(***************************************************************************)
\* C3: with KES_API_KEY absent, a file is read only if KES_CLIENT_CERT and
\* KES_CLIENT_KEY are both present and not blank; each of the four errors is
\* reported for its own variable in its own state, before any collaborator is
\* called; and while either variable is still being checked nothing has been read.
C3_ChecksBeforeFirstRead ==
    Absent(EnvAPIKey) =>
        /\ calls # <<>> => (Usable(EnvClientCert) /\ Usable(EnvClientKey))
        /\ pc \in {"LookupClientCert", "LookupClientKey"} => calls = <<>>
        /\ fatal = CertNotSet => (Absent(EnvClientCert) /\ calls = <<>>)
        /\ fatal = CertEmpty => (AllSpace(EnvClientCert) /\ calls = <<>>)
        /\ fatal = KeyNotSet => (Absent(EnvClientKey) /\ calls = <<>>)
        /\ fatal = KeyEmpty => (AllSpace(EnvClientKey) /\ calls = <<>>)
        /\ (Terminated /\ ~(Usable(EnvClientCert) /\ Usable(EnvClientKey))) =>
                fatal \in {CertNotSet, CertEmpty, KeyNotSet, KeyEmpty}

\* The certificate file has been read.
C3_Witness ==
    /\ Absent(EnvAPIKey)
    /\ calls = <<"ReadFile(certPath)">>
    /\ certPath = <<" ", "f", " ">>
    /\ keyPath = <<"f">>

(***************************************************************************)
(* C4                                                                      *)
(***************************************************************************)
\* C4: on both paths the client is built with the default endpoint when
\* KES_SERVER is absent and with the variable's value, unchanged, when it is
\* present, the empty string included; so the address is the default exactly when
\* the variable is absent or spells the default itself.
C4_ServerAddress ==
    client.built =>
        /\ Absent(EnvServer) => client.addr = DefaultServer
        /\ ~Absent(EnvServer) => client.addr = env[EnvServer].val
        /\ client.addr = DefaultServer <=>
                (Absent(EnvServer) \/ env[EnvServer].val = DefaultServer)

\* A client built from files for an empty server address.
C4_Witness ==
    /\ client.built
    /\ client.cert = "keypair"
    /\ Empty(EnvServer)
    /\ client.addr = <<>>

(***************************************************************************)
(* C5                                                                      *)
(***************************************************************************)
\* C5: once decodePrivateKey has been called on a key file that holds no block
\* whose type is "PRIVATE KEY" or ends with " PRIVATE KEY", the prompt is never
\* printed, the password is never read, no key pair is built, and the run ends in
\* "failed to read TLS private key: no PEM-encoded private key found".
C5_NoKeyBlockNoPrompt ==
    (Called("decodePrivateKey") /\ NoKeyBlock(keyPem)) =>
        /\ ~Written(Prompt)
        /\ ~Called("ReadPassword")
        /\ cert = "none"
        /\ Terminated => (pc = "exit" /\ fatal = <<FmtReadKey, ErrNoPrivateKey>>)

\* The run has ended on a key file whose only block is an encrypted block of the
\* type "RSAPRIVATE KEY", followed by non-PEM data.
C5_Witness ==
    /\ Called("decodePrivateKey")
    /\ Len(keyPem) = 2
    /\ keyPem[1].type = TypeNearMiss
    /\ keyPem[2] = Junk
    /\ pc = "exit"

(***************************************************************************)
(* C6                                                                      *)
(***************************************************************************)
\* C6: the prompt is printed and the password read is attempted only when
\* standard error is a terminal.
C6_PromptOnlyOnTerminal ==
    (Written(Prompt) \/ Called("ReadPassword")) => stderrIsTerm

(***************************************************************************)
(* C7                                                                      *)
(***************************************************************************)
DecryptFailed == Terminated /\ calls # <<>> /\ calls[Len(calls)] = "DecryptPEMBlock"

\* C7: a run that ends at the decryption of the key block ends in "incorrect
\* password" exactly when x509.DecryptPEMBlock returned IncorrectPasswordError and
\* in "failed to decrypt private key: <err>" for every other error; neither
\* message appears otherwise, and no key pair or client is built.
C7_DecryptErrors ==
    /\ DecryptFailed =>
        /\ pc = "exit"
        /\ err # NoErr
        /\ cert = "none"
        /\ ~client.built
        /\ err = IncorrectPasswordError => fatal = <<FmtIncorrect, NoErr>>
        /\ err # IncorrectPasswordError => fatal = <<FmtDecrypt, err>>
    /\ (fatal # <<>> /\ fatal[1] \in {FmtIncorrect, FmtDecrypt}) => DecryptFailed

\* A wrong password was entered and reported as such.
C7_Witness ==
    /\ DecryptFailed
    /\ password = "guess"
    /\ err = IncorrectPasswordError
    /\ fatal = <<FmtIncorrect, NoErr>>

(***************************************************************************)
(* C8                                                                      *)
(***************************************************************************)
APIKeyCalls == <<"ParseAPIKey", "GenerateCertificate">>

FileCalls ==
    <<"ReadFile(certPath)", "FilterPEM", "ReadFile(keyPath)", "decodePrivateKey", "X509KeyPair">>

FileCallsEncrypted ==
    <<"ReadFile(certPath)", "FilterPEM", "ReadFile(keyPath)", "decodePrivateKey",
      "ReadPassword", "DecryptPEMBlock", "X509KeyPair">>

IsPrefix(s, t) == Len(s) <= Len(t) /\ s = SubSeq(t, 1, Len(s))

APIKeyLabels == {"LookupAPIKey", "ConflictCert", "ConflictKey", "ParseAPIKey",
                 "GenerateCertificate", "NewClientAPIKey", "done", "exit"}

\* C8: a key pair exists only when every step of one path has been made, in
\* order, and the last one succeeded; the client carries that key pair and the
\* caller's flag; a run that has failed has no key pair and no client; no
\* collaborator is called twice; and the path follows from KES_API_KEY alone: a
\* run with the variable set never enters the file path, one without it makes
\* only file-path calls.
C8_KeyPairOnlyAfterWholePath ==
    /\ cert = "generated" => (env[EnvAPIKey].ok /\ calls = APIKeyCalls)
    /\ cert = "keypair" => (Absent(EnvAPIKey) /\ calls \in {FileCalls, FileCallsEncrypted})
    /\ cert # "none" => (err = NoErr /\ fatal = <<>> /\ pc # "exit")
    /\ client.built =>
        /\ pc = "done"
        /\ cert # "none"
        /\ client.cert = cert
        /\ client.insecureSkipVerify = insecureSkipVerify
    /\ pc = "done" => client.built
    /\ pc = "exit" => (cert = "none" /\ ~client.built /\ fatal # <<>>)
    /\ \A i, j \in 1..Len(calls) : calls[i] = calls[j] => i = j
    /\ env[EnvAPIKey].ok => (pc \in APIKeyLabels /\ IsPrefix(calls, APIKeyCalls))
    /\ Absent(EnvAPIKey) =>
        (IsPrefix(calls, FileCalls) \/ IsPrefix(calls, FileCallsEncrypted))

\* A client built from files whose key had to be decrypted.
C8_Witness ==
    /\ client.built
    /\ cert = "keypair"
    /\ calls = FileCallsEncrypted

(***************************************************************************)
(* C9                                                                      *)
(***************************************************************************)
\* decodePrivateKey has returned to line 284.
Decoded == pc = "CheckDecodeErr"

\* The blocks decodePrivateKey has passed over: keyPem without its suffix pemBlock.
Skipped == SubSeq(keyPem, 1, Len(keyPem) - Len(pemBlock))

C9_FirstKeyBlock ==
    /\ pc \in {"decodePrivateKey", "CheckDecodeErr"} =>
        /\ Len(pemBlock) <= Len(keyPem)
        /\ pemBlock = SubSeq(keyPem, Len(keyPem) - Len(pemBlock) + 1, Len(keyPem))
        /\ NoKeyBlock(Skipped)
    /\ (Decoded /\ NoKeyBlock(keyPem)) => (err = ErrNoPrivateKey /\ privateKey = NoBlock)
    /\ (Decoded /\ ~NoKeyBlock(keyPem)) =>
        /\ err = NoErr
        /\ \E i \in 1..Len(keyPem) :
            /\ KeyBlockAt(keyPem, i)
            /\ \A j \in 1..(i - 1) : ~KeyBlockAt(keyPem, j)
            /\ privateKey = keyPem[i]

\* The PEM blocks of a file.
BlockCount(data) == Cardinality({ i \in 1..Len(data) : data[i].kind = "block" })

\* C9: decodePrivateKey returns the first block of the key file, from the left,
\* whose type is "PRIVATE KEY" or ends with " PRIVATE KEY", and everything before
\* it is passed over without an error; it returns "no PEM-encoded private key
\* found" exactly when the file holds no such block; and the scan ends: every
\* pass of its loop that does not return leaves a shorter input, so the loop
\* makes at most one pass more than the file has blocks.
C9_DecodePrivateKey ==
    /\ C9_FirstKeyBlock
    /\ pc \in {"decodePrivateKey", "CheckDecodeErr"} =>
        /\ passes <= BlockCount(keyPem) + 1
        /\ passes = BlockCount(Skipped) + (IF Decoded THEN 1 ELSE 0)

\* For [CERTIFICATE, RSA PRIVATE KEY] the RSA PRIVATE KEY block is returned.
C9_Witness ==
    /\ Decoded
    /\ Len(keyPem) = 2
    /\ keyPem[1].type = TypeCertificate
    /\ keyPem[2].type = TypeRSAPrivateKey
    /\ privateKey = keyPem[2]
    /\ err = NoErr

(***************************************************************************)
(* C10                                                                     *)
(***************************************************************************)
\* C10: once the prompt has been printed and the password read has returned, with
\* or without an error, a newline follows the prompt on standard error before the
\* run goes on or ends.
C10_NewlineAfterPrompt ==
    (Written(Prompt) /\ pc \notin {"ReadPassword", "PrintNewline"}) =>
        \E i \in 1..(Len(stderr) - 1) : stderr[i] = Prompt /\ stderr[i + 1] = Newline

====
